---- MODULE Spec2Model ----
\* A model of the bsclient package (a web client for the BetaSeries API):
\* the client object, its construction with the credential exchange, every
\* endpoint's request builder, the HTTP round trip and the decoding of the
\* reply.  One action is one exported call of the package, from its first
\* statement to its return (or to the termination of the process).
EXTENDS Integers, Sequences, FiniteSets, TLC

\* ---------------------------------------------------------------- bounds
\* Integer arguments (identifiers, counts, limits) range over -1..MaxID.
MaxID == 1
\* The "errors" list of a reply holds at most MaxErrs entries.
MaxErrs == 2
\* The data collection of a reply holds at most MaxItems records.
MaxItems == 2
\* ShowNote is called with notes in (noteMin - NoteSlack)..(noteMax + NoteSlack).
NoteSlack == 2

\* ------------------------------------------------------- program constants
bsBaseURL == "https://api.betaseries.com"
bsVersion == "2.4"
StatusOK == 200
noteMin == 1
noteMax == 5

\* ------------------------------------------------------------ input sets
Ints == -1..MaxID
Notes == (noteMin - NoteSlack)..(noteMax + NoteSlack)
Keys == {"k1", "k2"}
Logins == {"", "bob"}
Passwords == {"", "pw", "secret"}
ImdbIDs == {"", "tt1"}
\* decoded records (Show, Similar, Character, Video, Episode) by identity
Items == {"r1", "r2"}
NilItem == "nil"
ErrPairs == {[code |-> 1001, text |-> "Invalid user"], [code |-> 2001, text |-> "Invalid API key"]}
TokenStrings == {"", "tok"}

SeqsUpTo(S, n) == UNION {[1..k -> S] : k \in 0..n}

\* ------------------------------------------------------------ error values
Error(kind, text, errs) == [kind |-> kind, text |-> text, errors |-> errs]
NoErr == Error("nil", "", <<>>)
errNoShowsFound == Error("sentinel", "no shows found", <<>>)
errNoCharactersFound == Error("sentinel", "no characters found", <<>>)
errNoVideosFound == Error("sentinel", "no videos found", <<>>)
errNoSingleIDUsed == Error("sentinel", "no single id used", <<>>)
errIDNotProperlySet == Error("sentinel", "id not properly set", <<>>)
errInvalidNote == Error("sentinel", "invalid note", <<>>)
errNoEpisodesFound == Error("sentinel", "no episodes found", <<>>)
\* an error of the HTTP transport, handed on unchanged
errTransport == Error("transport", "", <<>>)
\* the reply's body is not JSON of the expected shape
errMalformed == Error("decode", "", <<>>)
\* the reply's "errors" list, as reported by the service
errService(errs) == Error("service", "", errs)

\* ------------------------------------------------------------ conversions
DigitStr == <<"0", "1", "2", "3", "4", "5", "6", "7", "8", "9">>

RECURSIVE Digits(_)
Digits(n) == IF n < 10 THEN DigitStr[n + 1] ELSE Digits(n \div 10) \o DigitStr[(n % 10) + 1]

\* strconv.Itoa: the decimal text of an integer
Itoa(n) == IF n < 0 THEN "-" \o Digits(0 - n) ELSE Digits(n)

\* strings.ToLower on the search words of the model
ToLower(s) == IF s = "Lost" THEN "lost" ELSE s

\* fmt.Sprintf("%x", md5.Sum(password)) on the passwords of the model
MD5Hex(p) ==
    CASE p = "pw" -> "8fe4c11451281c094a6578e6ddbf5eed"
      [] p = "secret" -> "5ebe2294ecd0e0f08eab7690d2a6ee69"
      [] OTHER -> "d41d8cd98f00b204e9800998ecf8427e"

\* url.Values: a map from parameter names to values
EmptyValues == [k \in {} |-> ""]
Set(q, k, v) == [x \in (DOMAIN q) \cup {k} |-> IF x = k THEN v ELSE q[x]]

\* url.QueryEscape: of the strings of the model only the one with a blank changes
QueryEscape(s) == IF s = "thetvdb_id " THEN "thetvdb_id+" ELSE s

\* the parameter names of the package in byte order, the order of Values.Encode
SortedKeys ==
    <<"details", "episode", "episode_id", "id", "imdb_id", "limit", "login",
      "nb", "nbpp", "note", "order", "password", "released", "season",
      "showIMDBId", "showId", "showTheTVDBId", "since", "specials", "start",
      "starting", "subtitles", "summary", "thetvdb_id", "thetvdb_id ",
      "title", "userId">>

InValues(q, k) == k \in DOMAIN q

\* Values.Encode: the escaped name=value pairs sorted by name
Encode(q) ==
    LET present == SelectSeq(SortedKeys, LAMBDA k : InValues(q, k))
    IN  [i \in 1..Len(present) |-> <<QueryEscape(present[i]), QueryEscape(q[present[i]])>>]

\* ------------------------------------------------------------ HTTP messages
NoReq == [method |-> "", path |-> "", rawQuery |-> <<>>, header |-> EmptyValues]

BadBody == [parsable |-> FALSE, errors |-> <<>>, list |-> <<>>, item |-> NilItem, token |-> ""]
\* a JSON object: its "errors" array, its data collection, its single
\* record and its "token" string (an absent field decodes to the zero value)
JSON(errs, list, item, tok) ==
    [parsable |-> TRUE, errors |-> errs, list |-> list, item |-> item, token |-> tok]

NoResp == [failed |-> TRUE, status |-> 0, body |-> BadBody]
Reply(status, body) == [failed |-> FALSE, status |-> status, body |-> body]

ErrLists == SeqsUpTo(ErrPairs, MaxErrs)
CollectionBodies ==
    {BadBody} \cup {JSON(e, l, NilItem, "") : e \in ErrLists, l \in SeqsUpTo(Items, MaxItems)}
ItemBodies ==
    {BadBody} \cup {JSON(e, <<>>, it, "") : e \in ErrLists, it \in Items \cup {NilItem}}
AuthBodies ==
    {BadBody} \cup {JSON(e, <<>>, NilItem, t) : e \in ErrLists, t \in TokenStrings}

\* the outcomes of one round trip: the transport fails, or a reply arrives
Replies(bodies) == {NoResp} \cup {Reply(StatusOK, b) : b \in bodies}
Statuses == {StatusOK, 401}
AuthReplies == {NoResp} \cup {Reply(s, b) : s \in Statuses, b \in AuthBodies}

\* A call is explored with every argument tuple against the plain replies,
\* and with the endpoint's plain arguments against every reply.
PlainReplies(bodies) ==
    {r \in Replies(bodies) : Len(r.body.errors) = 0 /\ Len(r.body.list) <= 1}
RepliesFor(bodies, plainArgs) == IF plainArgs THEN Replies(bodies) ELSE PlainReplies(bodies)

\* ------------------------------------------------------------------ state
VARIABLES
    bs,          \* the BetaSeries client: baseURL, version, key, token
    alive,       \* the process is running (log.Fatal has not been called)
    openBodies,  \* response bodies obtained and not closed
    last         \* the call that has just returned, with what it sent and got

vars == <<bs, alive, openBodies, last>>

NoToken == [present |-> FALSE, Token |-> ""]
TokenData(tok) == [present |-> TRUE, Token |-> tok]
NoClient == [baseURL |-> "", version |-> "", key |-> "", token |-> NoToken]

NoCall == [op |-> "none"]

\* what one call did: the request it sent (NoReq: none), the reply it
\* got, the values it returned, whether it left the body open, whether it
\* terminated the process
Outcome(req, resp, items, item, err, open, fatal) ==
    [req |-> req, resp |-> resp, items |-> items, item |-> item, err |-> err,
     open |-> open, fatal |-> fatal]

\* a call that fails before any request is made
Refused(err) == Outcome(NoReq, NoResp, <<>>, NilItem, err, FALSE, FALSE)

Init ==
    /\ bs = NoClient
    /\ alive = TRUE
    /\ openBodies = 0
    /\ last = NoCall

\* the call's values reach the caller: what it returned, the body it left
\* open, the process it ended
Deliver(op, args, out) ==
    /\ last' = [op |-> op, args |-> args, req |-> out.req, resp |-> out.resp,
                items |-> out.items, item |-> out.item, err |-> out.err,
                returned |-> ~out.fatal]
    /\ alive' = ~out.fatal
    /\ openBodies' = openBodies + (IF out.open THEN 1 ELSE 0)

\* ------------------------------------------------------------ the client
\* BetaSeries.do: the headers of every request; the token only when present
do(b, method, path, rawQuery) ==
    LET h0 == Set(EmptyValues, "Accept", "application/json")
        h1 == Set(h0, "X-BetaSeries-Version", b.version)
        h2 == Set(h1, "X-BetaSeries-Key", b.key)
        h3 == IF b.token.present THEN Set(h2, "X-BetaSeries-Token", b.token.Token) ELSE h2
    IN  [method |-> method, path |-> path, rawQuery |-> rawQuery, header |-> h3]

\* deferClose with the defer statement left out
deferCloseForgotten(out) == out

\* defer resp.Body.Close(): the body is closed when the call returns
deferClose(out) == [out EXCEPT !.open = FALSE]

\* errAPI.Error: the texts of the reported errors, one per line
RECURSIVE errAPIError(_)
errAPIError(errs) ==
    IF errs = <<>> THEN "" ELSE (errs[1].text \o "\n") \o errAPIError(Tail(errs))

\* decodeErr: the error envelope of a body; log.Fatalf when it does not parse
decodeErr(body) == [fatal |-> ~body.parsable, errors |-> body.errors]

\* exchangeToken without the test of the status: the body of any reply is
\* decoded as a token
exchangeTokenAnyStatus(b, login, password, resp) ==
    LET q1 == Set(EmptyValues, "login", login)
        q2 == Set(q1, "password", MD5Hex(password))
        req == do(b, "POST", "/members/auth", Encode(q2))
    IN  IF resp.failed
        THEN [bs |-> b,
              out |-> Outcome(req, NoResp, <<>>, NilItem,
                              Error("fmt", "Error getting token", <<>>), FALSE, FALSE)]
        ELSE IF ~resp.body.parsable
        THEN [bs |-> b,
              out |-> deferClose(Outcome(req, resp, <<>>, NilItem,
                          Error("fmt", "Error decoding token response", <<>>),
                          TRUE, FALSE))]
        ELSE [bs |-> [b EXCEPT !.token = TokenData(resp.body.token)],
              out |-> deferClose(Outcome(req, resp, <<>>, NilItem, NoErr, TRUE, FALSE))]

\* retrieveToken past its first test: the request to /members/auth and
\* the handling of its reply.  Yields the client and the outcome.
exchangeToken(b, login, password, resp) ==
    LET q1 == Set(EmptyValues, "login", login)
        q2 == Set(q1, "password", MD5Hex(password))
        req == do(b, "POST", "/members/auth", Encode(q2))
    IN  IF resp.failed
        THEN [bs |-> b,
              out |-> Outcome(req, NoResp, <<>>, NilItem,
                              Error("fmt", "Error getting token", <<>>), FALSE, FALSE)]
        ELSE IF resp.status # StatusOK
        THEN IF decodeErr(resp.body).fatal
             \* log.Fatalf exits the process: the deferred Close does not run
             THEN [bs |-> b,
                   out |-> Outcome(req, resp, <<>>, NilItem, NoErr, TRUE, TRUE)]
             ELSE [bs |-> b,
                   out |-> deferClose(Outcome(req, resp, <<>>, NilItem,
                               Error("fmt", errAPIError(decodeErr(resp.body).errors), <<>>),
                               TRUE, FALSE))]
        ELSE IF ~resp.body.parsable
        THEN [bs |-> b,
              out |-> deferClose(Outcome(req, resp, <<>>, NilItem,
                          Error("fmt", "Error decoding token response", <<>>),
                          TRUE, FALSE))]
        ELSE [bs |-> [b EXCEPT !.token = TokenData(resp.body.token)],
              out |-> deferClose(Outcome(req, resp, <<>>, NilItem, NoErr, TRUE, FALSE))]

\* retrieveToken with && for ||: anonymous only when both are empty
retrieveTokenBothEmpty(b, login, password, resp) ==
    IF Len(login) = 0 /\ Len(password) = 0
    THEN [bs |-> b, out |-> Outcome(NoReq, NoResp, <<>>, NilItem, NoErr, FALSE, FALSE)]
    ELSE exchangeToken(b, login, password, resp)

\* retrieveToken: no exchange without a login and a password
retrieveToken(b, login, password, resp) ==
    IF Len(login) = 0 \/ Len(password) = 0
    THEN [bs |-> b, out |-> Outcome(NoReq, NoResp, <<>>, NilItem, NoErr, FALSE, FALSE)]
    ELSE exchangeToken(b, login, password, resp)

\* NewBetaseriesClient(key, login, password): the client with the
\* constants of the package, and retrieveToken's error
NewBetaseriesClient(key, login, password, resp) ==
    retrieveToken([baseURL |-> bsBaseURL, version |-> bsVersion, key |-> key,
                   token |-> NoToken],
                  login, password, resp)

\* ----------------------------------------------------------- the decoder
\* BetaSeries.decode(data, resp, usedAPI, rawQuery): reads and closes the
\* body, parses the envelope, and turns reported errors into a service error
decode(body) ==
    [err |-> IF ~body.parsable THEN errMalformed
             ELSE IF Len(body.errors) > 0 THEN errService(body.errors)
             ELSE NoErr,
     closed |-> TRUE]

\* if c { q.Set(k, v) }
SetIf(c, q, k, v) == IF c THEN Set(q, k, v) ELSE q

\* doGetShows without the test of decode's error
doGetShowsIgnoringErr(b, path, q, resp) ==
    LET req == do(b, "GET", path, Encode(q))
        d == decode(resp.body)
    IN  IF resp.failed
        THEN Outcome(req, NoResp, <<>>, NilItem, errTransport, FALSE, FALSE)
        ELSE deferClose(
               IF Len(resp.body.list) < 1
               THEN Outcome(req, resp, <<>>, NilItem, errNoShowsFound, ~d.closed, FALSE)
               ELSE Outcome(req, resp, resp.body.list, NilItem, NoErr, ~d.closed, FALSE))

\* doGetShows without the test of the length
doGetShowsAllowingEmpty(b, path, q, resp) ==
    LET req == do(b, "GET", path, Encode(q))
        d == decode(resp.body)
    IN  IF resp.failed
        THEN Outcome(req, NoResp, <<>>, NilItem, errTransport, FALSE, FALSE)
        ELSE deferClose(
               IF d.err # NoErr
               THEN Outcome(req, resp, <<>>, NilItem, d.err, ~d.closed, FALSE)
               ELSE Outcome(req, resp, resp.body.list, NilItem, NoErr, ~d.closed, FALSE))

doGetShows(b, path, q, resp) ==
    LET req == do(b, "GET", path, Encode(q))
        d == decode(resp.body)
    IN  IF resp.failed
        THEN Outcome(req, NoResp, <<>>, NilItem, errTransport, FALSE, FALSE)
        ELSE deferClose(
               IF d.err # NoErr
               THEN Outcome(req, resp, <<>>, NilItem, d.err, ~d.closed, FALSE)
               ELSE IF Len(resp.body.list) < 1
               THEN Outcome(req, resp, <<>>, NilItem, errNoShowsFound, ~d.closed, FALSE)
               ELSE Outcome(req, resp, resp.body.list, NilItem, NoErr, ~d.closed, FALSE))

doGetSimilars(b, path, q, resp) ==
    LET req == do(b, "GET", path, Encode(q))
        d == decode(resp.body)
    IN  IF resp.failed
        THEN Outcome(req, NoResp, <<>>, NilItem, errTransport, FALSE, FALSE)
        ELSE deferClose(
               IF d.err # NoErr
               THEN Outcome(req, resp, <<>>, NilItem, d.err, ~d.closed, FALSE)
               ELSE IF Len(resp.body.list) < 1
               THEN Outcome(req, resp, <<>>, NilItem, errNoShowsFound, ~d.closed, FALSE)
               ELSE Outcome(req, resp, resp.body.list, NilItem, NoErr, ~d.closed, FALSE))

\* doGetEpisodes(u, usedAPI): the episodes of a reply
doGetEpisodes(b, path, q, resp) ==
    LET req == do(b, "GET", path, Encode(q))
        d == decode(resp.body)
    IN  IF resp.failed
        THEN Outcome(req, NoResp, <<>>, NilItem, errTransport, FALSE, FALSE)
        ELSE deferClose(
               IF d.err # NoErr
               THEN Outcome(req, resp, <<>>, NilItem, d.err, ~d.closed, FALSE)
               ELSE IF Len(resp.body.list) < 1
               THEN Outcome(req, resp, <<>>, NilItem, errNoEpisodesFound, ~d.closed, FALSE)
               ELSE Outcome(req, resp, resp.body.list, NilItem, NoErr, ~d.closed, FALSE))

\* ---------------------------------------------------------- the endpoints
ShowsSearch(b, query, order, summary, resp) ==
    LET q1 == Set(EmptyValues, "title", ToLower(query))
        q2 == Set(q1, "nbpp", "100")
        q3 == IF order \in {"title", "popularity", "followers"}
              THEN Set(q2, "order", order)
              ELSE Set(q2, "order", "popularity")
        q4 == SetIf(summary, q3, "summary", "true")
    IN  doGetShows(b, "/shows/search", q4, resp)

ShowsRandom(b, num, summary, resp) ==
    LET q1 == SetIf(num >= 0, EmptyValues, "nb", Itoa(num))
        q2 == SetIf(summary, q1, "summary", "true")
    IN  doGetShows(b, "/shows/random", q2, resp)

ShowsFavorites(b, userID, resp) ==
    doGetShows(b, "/shows/favorites", SetIf(userID > 0, EmptyValues, "id", Itoa(userID)), resp)

ShowsSimilars(b, id, theTvdbID, details, resp) ==
    IF id > 0
    THEN doGetSimilars(b, "/shows/similars",
             SetIf(details, Set(EmptyValues, "id", Itoa(id)), "details", "true"), resp)
    ELSE IF theTvdbID > 0
    THEN doGetSimilars(b, "/shows/similars",
             SetIf(details, Set(EmptyValues, "thetvdb_id", Itoa(theTvdbID)), "details", "true"),
             resp)
    ELSE Refused(errIDNotProperlySet)

ShowsCharactersQuery(id, theTvdbID) ==
    IF id > 0 THEN Set(EmptyValues, "id", Itoa(id))
    ELSE Set(EmptyValues, "thetvdb_id", Itoa(theTvdbID))

ShowsCharacters(b, id, theTvdbID, resp) ==
    LET req == do(b, "GET", "/shows/characters", Encode(ShowsCharactersQuery(id, theTvdbID)))
        d == decode(resp.body)
    IN  IF ~(id > 0) /\ ~(theTvdbID > 0)
        THEN Refused(errIDNotProperlySet)
        ELSE IF resp.failed
        THEN Outcome(req, NoResp, <<>>, NilItem, errTransport, FALSE, FALSE)
        ELSE deferClose(
               IF d.err # NoErr
               THEN Outcome(req, resp, <<>>, NilItem, d.err, ~d.closed, FALSE)
               ELSE IF Len(resp.body.list) < 1
               THEN Outcome(req, resp, <<>>, NilItem, errNoCharactersFound, ~d.closed, FALSE)
               ELSE Outcome(req, resp, resp.body.list, NilItem, NoErr, ~d.closed, FALSE))

ShowsList(b, since, starting, order, start, limit, resp) ==
    LET q1 == IF order \in {"alphabetical", "popularity", "followers"}
              THEN Set(EmptyValues, "order", order)
              ELSE Set(EmptyValues, "order", "popularity")
        q2 == SetIf(Len(since) # 0, q1, "since", since)
        q3 == SetIf(Len(starting) # 0, q2, "starting", starting)
        q4 == SetIf(start > 0, q3, "start", Itoa(start))
        q5 == SetIf(limit > 0, q4, "limit", Itoa(limit))
    IN  doGetShows(b, "/shows/list", q5, resp)

\* the identifier of showUpdate: id, else thetvdb_id, else imdb_id
showUpdateID(id, theTvdbID, imdbID) ==
    IF id > 0 THEN Set(EmptyValues, "id", Itoa(id))
    ELSE IF theTvdbID > 0 THEN Set(EmptyValues, "thetvdb_id", Itoa(theTvdbID))
    ELSE Set(EmptyValues, "imdb_id", imdbID)

\* the option of showUpdate: the note of "note", the episode of "show"
showUpdateOption(q, endPoint, option) ==
    IF option > 0
    THEN CASE endPoint = "note" -> Set(q, "note", Itoa(option))
           [] endPoint = "show" -> Set(q, "episode_id", Itoa(option))
           [] OTHER -> q
    ELSE q

showUpdate(b, method, endPoint, id, theTvdbID, imdbID, option, resp) ==
    LET q == showUpdateOption(showUpdateID(id, theTvdbID, imdbID), endPoint, option)
        req == do(b, method, "/shows/" \o endPoint, Encode(q))
        d == decode(resp.body)
    IN  IF ~(id > 0) /\ ~(theTvdbID > 0) /\ ~(imdbID # "")
        THEN Refused(errIDNotProperlySet)
        ELSE IF resp.failed
        THEN Outcome(req, NoResp, <<>>, NilItem, errTransport, FALSE, FALSE)
        ELSE deferClose(
               IF d.err # NoErr
               THEN Outcome(req, resp, <<>>, NilItem, d.err, ~d.closed, FALSE)
               ELSE Outcome(req, resp, <<>>, resp.body.item, NoErr, ~d.closed, FALSE))

ShowFavorite(b, id, resp) == showUpdate(b, "POST", "favorite", id, 0, "", 0, resp)
ShowFavoriteRemove(b, id, resp) == showUpdate(b, "DELETE", "favorite", id, 0, "", 0, resp)
ShowDisplay(b, id, theTvdbID, imdbID, resp) ==
    showUpdate(b, "GET", "display", id, theTvdbID, imdbID, 0, resp)
ShowAdd(b, id, theTvdbID, imdbID, lastEpisodeID, resp) ==
    showUpdate(b, "POST", "show", id, theTvdbID, imdbID, lastEpisodeID, resp)
ShowRemove(b, id, theTvdbID, imdbID, resp) ==
    showUpdate(b, "DELETE", "show", id, theTvdbID, imdbID, 0, resp)
ShowArchive(b, id, theTvdbID, resp) ==
    showUpdate(b, "POST", "archive", id, theTvdbID, "", 0, resp)
ShowNotArchive(b, id, theTvdbID, resp) ==
    showUpdate(b, "DELETE", "archive", id, theTvdbID, "", 0, resp)

\* ShowNote without the upper limit of the note
ShowNoteNoUpperLimit(b, bsID, theTvdbID, note, resp) ==
    IF note < noteMin
    THEN Refused(errInvalidNote)
    ELSE showUpdate(b, "POST", "note", bsID, theTvdbID, "", note, resp)

ShowNote(b, bsID, theTvdbID, note, resp) ==
    IF note < noteMin \/ note > noteMax
    THEN Refused(errInvalidNote)
    ELSE showUpdate(b, "POST", "note", bsID, theTvdbID, "", note, resp)

ShowNoteRemove(b, bsID, theTvdbID, resp) ==
    showUpdate(b, "DELETE", "note", bsID, theTvdbID, "", 0, resp)

ShowsVideosQuery(id, tvdbID) ==
    IF id > 0 THEN Set(EmptyValues, "id", Itoa(id))
    ELSE Set(EmptyValues, "thetvdb_id ", Itoa(tvdbID))

\* ShowsVideos without the test of both identifiers: id is preferred
ShowsVideosPreferringID(b, id, tvdbID, resp) ==
    LET req == do(b, "GET", "/shows/videos", Encode(ShowsVideosQuery(id, tvdbID)))
        d == decode(resp.body)
    IN  IF ~(id > 0) /\ ~(tvdbID > 0)
        THEN Refused(errIDNotProperlySet)
        ELSE IF resp.failed
        THEN Outcome(req, NoResp, <<>>, NilItem, errTransport, FALSE, FALSE)
        ELSE deferClose(
               IF d.err # NoErr
               THEN Outcome(req, resp, <<>>, NilItem, d.err, ~d.closed, FALSE)
               ELSE IF Len(resp.body.list) < 1
               THEN Outcome(req, resp, <<>>, NilItem, errNoVideosFound, ~d.closed, FALSE)
               ELSE Outcome(req, resp, resp.body.list, NilItem, NoErr, ~d.closed, FALSE))

ShowsVideos(b, id, tvdbID, resp) ==
    LET req == do(b, "GET", "/shows/videos", Encode(ShowsVideosQuery(id, tvdbID)))
        d == decode(resp.body)
    IN  IF id > 0 /\ tvdbID > 0
        THEN Refused(errNoSingleIDUsed)
        ELSE IF ~(id > 0) /\ ~(tvdbID > 0)
        THEN Refused(errIDNotProperlySet)
        ELSE IF resp.failed
        THEN Outcome(req, NoResp, <<>>, NilItem, errTransport, FALSE, FALSE)
        ELSE deferClose(
               IF d.err # NoErr
               THEN Outcome(req, resp, <<>>, NilItem, d.err, ~d.closed, FALSE)
               ELSE IF Len(resp.body.list) < 1
               THEN Outcome(req, resp, <<>>, NilItem, errNoVideosFound, ~d.closed, FALSE)
               ELSE Outcome(req, resp, resp.body.list, NilItem, NoErr, ~d.closed, FALSE))

ShowsEpisodes(b, id, theTvdbID, season, episode, subtitles, resp) ==
    LET q1 == IF id > 0 THEN Set(EmptyValues, "id", Itoa(id))
              ELSE Set(EmptyValues, "thetvdb_id", Itoa(theTvdbID))
        q2 == SetIf(season > 0, q1, "season", Itoa(season))
        q3 == SetIf(season > 0 /\ episode > 0, q2, "episode", Itoa(episode))
        q4 == SetIf(subtitles, q3, "subtitles", "true")
    IN  IF ~(id > 0) /\ ~(theTvdbID > 0)
        THEN Refused(errIDNotProperlySet)
        ELSE doGetEpisodes(b, "/shows/episodes", q4, resp)

EpisodesList(b, showID, theTvdbID, imdbID, userID, limit, released, subtitles, specials, resp) ==
    LET q1 == SetIf(specials, EmptyValues, "specials", "true")
        q2 == SetIf(subtitles, q1, "subtitles", "true")
        q3 == SetIf(released >= 0, q2, "released", Itoa(released))
        q4 == SetIf(showID > 0, q3, "showId", Itoa(showID))
        q5 == SetIf(theTvdbID > 0, q4, "showTheTVDBId", Itoa(theTvdbID))
        q6 == SetIf(imdbID # "", q5, "showIMDBId", imdbID)
        q7 == SetIf(limit > 0, q6, "limit", Itoa(limit))
        q8 == SetIf(userID > 0, q7, "userId", Itoa(userID))
    IN  doGetShows(b, "/episodes/list", q8, resp)

\* EpisodesList(showID, userID), the two-argument form
EpisodesListOfUser(b, showID, userID, resp) ==
    LET q1 == SetIf(showID >= 0, EmptyValues, "showId", Itoa(showID))
        q2 == SetIf(userID >= 0, q1, "userId", Itoa(userID))
    IN  doGetShows(b, "/episodes/list", q2, resp)

episodeUpdate(b, method, id, resp) ==
    LET req == do(b, method, "/episodes/downloaded", Encode(Set(EmptyValues, "id", Itoa(id))))
        d == decode(resp.body)
    IN  IF resp.failed
        THEN Outcome(req, NoResp, <<>>, NilItem, errTransport, FALSE, FALSE)
        ELSE deferClose(
               IF d.err # NoErr
               THEN Outcome(req, resp, <<>>, NilItem, d.err, ~d.closed, FALSE)
               ELSE Outcome(req, resp, <<>>, resp.body.item, NoErr, ~d.closed, FALSE))

EpisodeDownloaded(b, id, resp) == episodeUpdate(b, "POST", id, resp)
EpisodeNotDownloaded(b, id, resp) == episodeUpdate(b, "DELETE", id, resp)

\* ------------------------------------------------------------ the calls
\* the values of the model's string and flag arguments
Queries == {"lost", "Lost"}
Orders == {"", "title", "alphabetical", "followers"}
Sinces == {"", "1400000000"}
Startings == {"", "lo"}

CallNewBetaseriesClient ==
    /\ alive /\ bs = NoClient /\ last = NoCall
    /\ \E key \in Keys, login \in Logins, password \in Passwords, resp \in AuthReplies :
         LET r == NewBetaseriesClient(key, login, password, resp)
         IN  /\ bs' = r.bs
             /\ Deliver("NewBetaseriesClient",
                        [key |-> key, login |-> login, password |-> password], r.out)

\* the caller is done with the values of the call that returned
Discard ==
    /\ alive /\ last # NoCall
    /\ last' = NoCall
    /\ UNCHANGED <<bs, alive, openBodies>>

\* an endpoint is called on a constructed client, by a caller that holds
\* no unconsumed result
Ready == alive /\ bs # NoClient /\ last = NoCall

\* an endpoint returns; no endpoint assigns a field of the client
Call(op, args, out) ==
    /\ Deliver(op, args, out)
    /\ UNCHANGED bs

CallShowsSearch ==
    /\ Ready
    /\ \E query \in Queries, order \in Orders, summary \in BOOLEAN :
         \E resp \in RepliesFor(CollectionBodies, <<query, order, summary>> = <<"lost", "title", FALSE>>) :
           Call("ShowsSearch", [query |-> query, order |-> order, summary |-> summary],
                ShowsSearch(bs, query, order, summary, resp))

CallShowsRandom ==
    /\ Ready
    /\ \E num \in Ints, summary \in BOOLEAN :
         \E resp \in RepliesFor(CollectionBodies, <<num, summary>> = <<1, FALSE>>) :
           Call("ShowsRandom", [num |-> num, summary |-> summary],
                ShowsRandom(bs, num, summary, resp))

CallShowsFavorites ==
    /\ Ready
    /\ \E userID \in Ints :
         \E resp \in RepliesFor(CollectionBodies, userID = 1) :
           Call("ShowsFavorites", [userID |-> userID], ShowsFavorites(bs, userID, resp))

CallShowFavorite ==
    /\ Ready
    /\ \E id \in Ints :
         \E resp \in RepliesFor(ItemBodies, id = 1) :
           Call("ShowFavorite", [id |-> id, theTvdbID |-> 0, imdbID |-> ""],
                ShowFavorite(bs, id, resp))

CallShowFavoriteRemove ==
    /\ Ready
    /\ \E id \in Ints :
         \E resp \in RepliesFor(ItemBodies, id = 1) :
           Call("ShowFavoriteRemove", [id |-> id, theTvdbID |-> 0, imdbID |-> ""],
                ShowFavoriteRemove(bs, id, resp))

CallShowsSimilars ==
    /\ Ready
    /\ \E id \in Ints, theTvdbID \in Ints, details \in BOOLEAN :
         \E resp \in RepliesFor(CollectionBodies, <<id, theTvdbID, details>> = <<1, 0, FALSE>>) :
           Call("ShowsSimilars", [id |-> id, theTvdbID |-> theTvdbID, details |-> details],
                ShowsSimilars(bs, id, theTvdbID, details, resp))

CallShowsCharacters ==
    /\ Ready
    /\ \E id \in Ints, theTvdbID \in Ints :
         \E resp \in RepliesFor(CollectionBodies, <<id, theTvdbID>> = <<1, 0>>) :
           Call("ShowsCharacters", [id |-> id, theTvdbID |-> theTvdbID],
                ShowsCharacters(bs, id, theTvdbID, resp))

CallShowsList ==
    /\ Ready
    /\ \E since \in Sinces, starting \in Startings, order \in Orders, start \in Ints, limit \in Ints :
         \E resp \in RepliesFor(CollectionBodies,
                                <<since, starting, order, start, limit>> = <<"", "", "", 0, 0>>) :
           Call("ShowsList",
                [since |-> since, starting |-> starting, order |-> order, start |-> start,
                 limit |-> limit],
                ShowsList(bs, since, starting, order, start, limit, resp))

CallShowDisplay ==
    /\ Ready
    /\ \E id \in Ints, theTvdbID \in Ints, imdbID \in ImdbIDs :
         \E resp \in RepliesFor(ItemBodies, <<id, theTvdbID, imdbID>> = <<1, 0, "">>) :
           Call("ShowDisplay", [id |-> id, theTvdbID |-> theTvdbID, imdbID |-> imdbID],
                ShowDisplay(bs, id, theTvdbID, imdbID, resp))

CallShowAdd ==
    /\ Ready
    /\ \E id \in Ints, theTvdbID \in Ints, imdbID \in ImdbIDs, lastEpisodeID \in Ints :
         \E resp \in RepliesFor(ItemBodies,
                                <<id, theTvdbID, imdbID, lastEpisodeID>> = <<1, 0, "", 0>>) :
           Call("ShowAdd",
                [id |-> id, theTvdbID |-> theTvdbID, imdbID |-> imdbID,
                 lastEpisodeID |-> lastEpisodeID],
                ShowAdd(bs, id, theTvdbID, imdbID, lastEpisodeID, resp))

CallShowRemove ==
    /\ Ready
    /\ \E id \in Ints, theTvdbID \in Ints, imdbID \in ImdbIDs :
         \E resp \in RepliesFor(ItemBodies, <<id, theTvdbID, imdbID>> = <<1, 0, "">>) :
           Call("ShowRemove", [id |-> id, theTvdbID |-> theTvdbID, imdbID |-> imdbID],
                ShowRemove(bs, id, theTvdbID, imdbID, resp))

CallShowArchive ==
    /\ Ready
    /\ \E id \in Ints, theTvdbID \in Ints :
         \E resp \in RepliesFor(ItemBodies, <<id, theTvdbID>> = <<1, 0>>) :
           Call("ShowArchive", [id |-> id, theTvdbID |-> theTvdbID, imdbID |-> ""],
                ShowArchive(bs, id, theTvdbID, resp))

CallShowNotArchive ==
    /\ Ready
    /\ \E id \in Ints, theTvdbID \in Ints :
         \E resp \in RepliesFor(ItemBodies, <<id, theTvdbID>> = <<1, 0>>) :
           Call("ShowNotArchive", [id |-> id, theTvdbID |-> theTvdbID, imdbID |-> ""],
                ShowNotArchive(bs, id, theTvdbID, resp))

CallShowNote ==
    /\ Ready
    /\ \E bsID \in Ints, theTvdbID \in Ints, note \in Notes :
         \E resp \in RepliesFor(ItemBodies, <<bsID, theTvdbID, note>> = <<1, 0, noteMin>>) :
           Call("ShowNote",
                [id |-> bsID, theTvdbID |-> theTvdbID, imdbID |-> "", note |-> note],
                ShowNote(bs, bsID, theTvdbID, note, resp))

CallShowNoteRemove ==
    /\ Ready
    /\ \E bsID \in Ints, theTvdbID \in Ints :
         \E resp \in RepliesFor(ItemBodies, <<bsID, theTvdbID>> = <<1, 0>>) :
           Call("ShowNoteRemove", [id |-> bsID, theTvdbID |-> theTvdbID, imdbID |-> ""],
                ShowNoteRemove(bs, bsID, theTvdbID, resp))

CallShowsVideos ==
    /\ Ready
    /\ \E id \in Ints, tvdbID \in Ints :
         \E resp \in RepliesFor(CollectionBodies, <<id, tvdbID>> = <<1, 0>>) :
           Call("ShowsVideos", [id |-> id, theTvdbID |-> tvdbID],
                ShowsVideos(bs, id, tvdbID, resp))

CallShowsEpisodes ==
    /\ Ready
    /\ \E id \in Ints, theTvdbID \in Ints, season \in Ints, episode \in Ints, subtitles \in BOOLEAN :
         \E resp \in RepliesFor(CollectionBodies,
                                <<id, theTvdbID, season, episode, subtitles>> = <<1, 0, 0, 0, FALSE>>) :
           Call("ShowsEpisodes",
                [id |-> id, theTvdbID |-> theTvdbID, season |-> season, episode |-> episode,
                 subtitles |-> subtitles],
                ShowsEpisodes(bs, id, theTvdbID, season, episode, subtitles, resp))

CallEpisodesList ==
    /\ Ready
    /\ \E showID \in Ints, theTvdbID \in Ints, imdbID \in ImdbIDs, userID \in Ints,
          limit \in Ints, released \in Ints, subtitles \in BOOLEAN, specials \in BOOLEAN :
         \E resp \in RepliesFor(CollectionBodies,
                                <<showID, theTvdbID, imdbID, userID, limit, released, subtitles, specials>>
                                  = <<1, 0, "", 0, 0, -1, FALSE, FALSE>>) :
           Call("EpisodesList",
                [showID |-> showID, theTvdbID |-> theTvdbID, imdbID |-> imdbID,
                 userID |-> userID, limit |-> limit, released |-> released,
                 subtitles |-> subtitles, specials |-> specials],
                EpisodesList(bs, showID, theTvdbID, imdbID, userID, limit, released,
                             subtitles, specials, resp))

CallEpisodesListOfUser ==
    /\ Ready
    /\ \E showID \in Ints, userID \in Ints :
         \E resp \in RepliesFor(CollectionBodies, <<showID, userID>> = <<1, 0>>) :
           Call("EpisodesListOfUser", [showID |-> showID, userID |-> userID],
                EpisodesListOfUser(bs, showID, userID, resp))

CallEpisodeDownloaded ==
    /\ Ready
    /\ \E id \in Ints :
         \E resp \in RepliesFor(ItemBodies, id = 1) :
           Call("EpisodeDownloaded", [id |-> id], EpisodeDownloaded(bs, id, resp))

CallEpisodeNotDownloaded ==
    /\ Ready
    /\ \E id \in Ints :
         \E resp \in RepliesFor(ItemBodies, id = 1) :
           Call("EpisodeNotDownloaded", [id |-> id], EpisodeNotDownloaded(bs, id, resp))

Next ==
    \/ CallNewBetaseriesClient
    \/ Discard
    \/ CallShowsSearch
    \/ CallShowsRandom
    \/ CallShowsFavorites
    \/ CallShowFavorite
    \/ CallShowFavoriteRemove
    \/ CallShowsSimilars
    \/ CallShowsCharacters
    \/ CallShowsList
    \/ CallShowDisplay
    \/ CallShowAdd
    \/ CallShowRemove
    \/ CallShowArchive
    \/ CallShowNotArchive
    \/ CallShowNote
    \/ CallShowNoteRemove
    \/ CallShowsVideos
    \/ CallShowsEpisodes
    \/ CallEpisodesList
    \/ CallEpisodesListOfUser
    \/ CallEpisodeDownloaded
    \/ CallEpisodeNotDownloaded

Spec == Init /\ [][Next]_vars

\* ------------------------------------------------------------- properties
\* the request of the last call was sent
Sent == last.req # NoReq
\* the parameter k of the query the last call emitted
HasParam(k) == \E i \in 1..Len(last.req.rawQuery) : last.req.rawQuery[i][1] = k
ParamIs(k, v) == \E i \in 1..Len(last.req.rawQuery) : last.req.rawQuery[i] = <<k, v>>
\* the last call got a reply whose envelope is well-formed
Decoded == ~last.resp.failed /\ last.resp.body.parsable

\* the endpoints that resolve a show by local or external ID
ShowIDOps ==
    {"ShowsSimilars", "ShowsCharacters", "ShowsVideos", "ShowsEpisodes", "ShowDisplay",
     "ShowAdd", "ShowRemove", "ShowArchive", "ShowNotArchive", "ShowNote", "ShowNoteRemove",
     "ShowFavorite", "ShowFavoriteRemove"}
\* of these, the ones that also take an imdb ID
ImdbOps == {"ShowDisplay", "ShowAdd", "ShowRemove"}
\* a call of ShowNote with a note it accepts, or a call of another endpoint
NoteAccepted == last.op = "ShowNote" => last.args.note \in 1..5
ImdbEmpty == last.op \in ImdbOps => last.args.imdbID = ""

\* C1: every endpoint that resolves a show by local or external ID: given
\* only a positive local ID the query it emits has the parameter id with
\* that value and no parameter thetvdb_id; given only a positive external
\* ID it has thetvdb_id with that value and no id; given neither (and no
\* imdb ID) it returns "id not properly set" and sends no request.
C1_IDResolution ==
    (last.op \in ShowIDOps /\ NoteAccepted) =>
      /\ (last.args.id > 0 /\ last.args.theTvdbID <= 0 /\ Sent) =>
           (ParamIs("id", Itoa(last.args.id)) /\ ~HasParam("thetvdb_id"))
      /\ (last.args.id <= 0 /\ last.args.theTvdbID > 0 /\ Sent) =>
           (ParamIs("thetvdb_id", Itoa(last.args.theTvdbID)) /\ ~HasParam("id"))
      /\ (last.args.id <= 0 /\ last.args.theTvdbID <= 0 /\ ImdbEmpty) =>
           (last.err.text = "id not properly set" /\ ~Sent)

\* C2: ShowNote with a note outside 1..5 returns "invalid note" and sends
\* no request, whatever the identifiers; with a note inside 1..5 and a
\* resolvable identifier it sends a POST to /shows/note whose parameter
\* note is the note given.
C2_ShowNoteRange ==
    last.op = "ShowNote" =>
      /\ last.args.note \notin 1..5 => (last.err.text = "invalid note" /\ ~Sent)
      /\ (last.args.note \in 1..5 /\ (last.args.id > 0 \/ last.args.theTvdbID > 0)) =>
           /\ Sent
           /\ last.req.method = "POST"
           /\ last.req.path = "/shows/note"
           /\ ParamIs("note", Itoa(last.args.note))

C2_Witness ==
    /\ last.op = "ShowNote"
    /\ last.args.note = 5
    /\ last.args.id <= 0 /\ last.args.theTvdbID > 0
    /\ Sent

\* C3: NewBetaseriesClient with an empty login or an empty password sends
\* no request and returns a client without a token, and a nil error, for
\* every key and every value of the other credential.
C3_Anonymous ==
    (last.op = "NewBetaseriesClient" /\ (last.args.login = "" \/ last.args.password = "")) =>
      /\ ~Sent
      /\ last.returned
      /\ last.err = NoErr
      /\ bs # NoClient
      /\ bs.key = last.args.key
      /\ ~bs.token.present

C3_Witness ==
    /\ last.op = "NewBetaseriesClient"
    /\ last.args.login = "bob"
    /\ last.args.password = ""
    /\ last.args.key = "k2"

\* C4: the token is written at most once, during NewBetaseriesClient and
\* only when the credential exchange returned status 200 with a body that
\* decodes; once the client is constructed no call changes its token, base
\* URL, version or key.
C4_TokenWrittenOnce ==
    [][/\ bs # NoClient => bs' = bs
       /\ bs'.token # bs.token =>
            /\ last'.op = "NewBetaseriesClient"
            /\ ~last'.resp.failed
            /\ last'.resp.status = 200
            /\ last'.resp.body.parsable
            /\ bs'.token = TokenData(last'.resp.body.token)]_vars

C4_Witness ==
    /\ bs.token.present
    /\ last.op = "ShowNote"
    /\ Sent
    /\ last.err # NoErr

\* the endpoints that decode shows, show, similars, videos or episode
EnvelopeOps ==
    {"ShowsSearch", "ShowsRandom", "ShowsFavorites", "ShowsList", "EpisodesList",
     "EpisodesListOfUser", "ShowsSimilars", "ShowsVideos", "ShowDisplay", "ShowAdd",
     "ShowRemove", "ShowArchive", "ShowNotArchive", "ShowNote", "ShowNoteRemove",
     "ShowFavorite", "ShowFavoriteRemove", "EpisodeDownloaded", "EpisodeNotDownloaded"}

\* C5: a reply whose envelope is well-formed and whose errors list is not
\* empty makes the call fail with a service error that carries exactly the
\* reported (code, text) pairs, and no payload is returned, whether or not
\* the data field is populated.
C5_ServiceError ==
    (last.op \in EnvelopeOps /\ Decoded /\ Len(last.resp.body.errors) > 0) =>
      /\ last.err.kind = "service"
      /\ last.err.errors = last.resp.body.errors
      /\ last.items = <<>>
      /\ last.item = NilItem

C5_Witness ==
    /\ last.op = "ShowsSearch"
    /\ Decoded
    /\ Len(last.resp.body.errors) = 2
    /\ last.resp.body.errors[1] # last.resp.body.errors[2]
    /\ Len(last.resp.body.list) > 0

\* the endpoints that return one record
SingleOps ==
    {"ShowDisplay", "ShowAdd", "ShowRemove", "ShowArchive", "ShowNotArchive", "ShowNote",
     "ShowNoteRemove", "ShowFavorite", "ShowFavoriteRemove", "EpisodeDownloaded",
     "EpisodeNotDownloaded"}

\* C6: a single-record endpoint whose reply decodes with no reported
\* errors and no payload returns a "missing payload" error; it never
\* returns a nil record with a nil error.
C6_MissingPayload ==
    (last.op \in SingleOps /\ Decoded /\ Len(last.resp.body.errors) = 0
       /\ last.resp.body.item = NilItem) =>
      last.err # NoErr

\* C7: when the credential exchange returns a status other than 200 and a
\* body that is no error envelope, construction returns a decode error and
\* the process keeps running; authentication never ends the process.
C7_NoCrash ==
    /\ alive
    /\ (last.op = "NewBetaseriesClient" /\ ~last.resp.failed /\ last.resp.status # 200
          /\ ~last.resp.body.parsable) =>
         (last.returned /\ last.err # NoErr)

C9_NoSingleID ==
    last.op = "ShowsVideos" =>
      /\ (last.args.id > 0 /\ last.args.theTvdbID > 0) =>
           (last.err.text = "no single id used" /\ ~Sent)
      /\ (last.args.id <= 0 /\ last.args.theTvdbID <= 0) =>
           (last.err.text = "id not properly set" /\ ~Sent)

C9_Witness ==
    /\ last.op = "ShowsVideos"
    /\ last.args.id > 0
    /\ last.args.theTvdbID > 0

\* the nothing-found error of each collection endpoint
NothingFound(op) ==
    CASE op = "ShowsCharacters" -> "no characters found"
      [] op = "ShowsVideos" -> "no videos found"
      [] OTHER -> "no shows found"
CollectionOps ==
    {"ShowsSearch", "ShowsRandom", "ShowsFavorites", "ShowsList", "EpisodesList",
     "EpisodesListOfUser", "ShowsCharacters", "ShowsVideos"}

\* C10: a reply that decodes with an empty errors list makes the call fail
\* with the nothing-found error of its collection and return no data when
\* the collection is empty, and succeed with exactly the decoded items in
\* their order when it is not.
C10_NothingFound ==
    (last.op \in CollectionOps /\ Decoded /\ Len(last.resp.body.errors) = 0) =>
      IF Len(last.resp.body.list) = 0
      THEN last.err.text = NothingFound(last.op) /\ last.err.kind = "sentinel"
           /\ last.items = <<>>
      ELSE last.err = NoErr /\ last.items = last.resp.body.list

C10_Witness ==
    /\ last.op = "ShowsFavorites"
    /\ Decoded
    /\ Len(last.resp.body.errors) = 0
    /\ Len(last.resp.body.list) = 2
    /\ last.resp.body.list[1] # last.resp.body.list[2]
    /\ last.items = last.resp.body.list

\* the endpoints that take numeric options
BuilderOps ==
    {"ShowsRandom", "ShowsFavorites", "ShowsList", "ShowsEpisodes", "EpisodesList",
     "EpisodesListOfUser", "ShowAdd"}

\* the parameter k is in the emitted query exactly when the argument is
\* strictly positive
PositiveOnly(k, arg) == HasParam(k) <=> arg > 0

\* C11: in every request builder a numeric option (ShowsRandom nb,
\* ShowsFavorites id, ShowsList start and limit, ShowsEpisodes season and
\* episode, EpisodesList showId, showTheTVDBId, limit and userId, ShowAdd
\* episode_id) is in the emitted query exactly when its argument is
\* strictly positive; only EpisodesList released is there exactly when its
\* argument is >= 0.  An argument of 0 or below never adds such a parameter.
C11_NumericOptions ==
    (last.op \in BuilderOps /\ Sent) =>
      /\ last.op = "ShowsRandom" => PositiveOnly("nb", last.args.num)
      /\ last.op = "ShowsFavorites" => PositiveOnly("id", last.args.userID)
      /\ last.op = "ShowsList" =>
           (PositiveOnly("start", last.args.start) /\ PositiveOnly("limit", last.args.limit))
      /\ last.op = "ShowsEpisodes" =>
           (PositiveOnly("season", last.args.season)
              /\ PositiveOnly("episode", last.args.episode))
      /\ last.op = "EpisodesList" =>
           /\ PositiveOnly("showId", last.args.showID)
           /\ PositiveOnly("showTheTVDBId", last.args.theTvdbID)
           /\ PositiveOnly("limit", last.args.limit)
           /\ PositiveOnly("userId", last.args.userID)
           /\ (HasParam("released") <=> last.args.released >= 0)
      /\ last.op = "EpisodesListOfUser" =>
           (PositiveOnly("showId", last.args.showID)
              /\ PositiveOnly("userId", last.args.userID))
      /\ last.op = "ShowAdd" => PositiveOnly("episode_id", last.args.lastEpisodeID)

====
